---- MODULE Spec2Model ----
(***************************************************************************)
(* Model of service/service.go: construction of the service (New) and the  *)
(* one-shot start of its two collector sets (Service.Boot).                *)
(***************************************************************************)
EXTENDS Integers, Sequences, FiniteSets, TLC

\* ---------------------------------------------------------------- bounds
NumCallers == 2      \* goroutines that call Service.Boot
MaxCalls == 3        \* total number of Boot calls issued
NumContexts == 2     \* distinct contexts the callers hold

Callers == 1..NumCallers
Contexts == 1..NumContexts
\* a context that no Boot caller holds (context.Background())
Background == 0

\* the two collector sets owned by Service
CollectorSets == {"operatorCollector", "statusResourceCollector"}

\* values of the string settings: "" is the unset value
Strings == {"", "x"}
Addresses == {"", "https://api"}
KubeConfigPaths == {"", "/kube/config"}

VARIABLES
    config,       \* the Config handed to New
    newPc,        \* position of New
    newErr,       \* error returned by New
    svc,          \* TRUE when New returned a *Service
    restConfig,   \* local restConfig of New
    clientsArg,   \* ClientsConfig values handed to k8sclient.NewClients
    calls,        \* constructors of collaborators invoked by New, in order
    pc,           \* position of each Boot caller
    bootCtx,      \* ctx argument of each caller's current Boot call
    nCalls,       \* Boot calls issued so far
    nReturned,    \* Boot calls that returned
    onceDone,     \* bootOnce: done flag
    onceM,        \* bootOnce: mutex holder (0 = unlocked)
    goroutines,   \* per collector set: goroutines spawned for its Boot
    cancelled     \* contexts that were cancelled

newVars == <<config, newPc, newErr, svc, restConfig, clientsArg, calls>>
bootVars == <<pc, bootCtx, nCalls, nReturned, onceDone, onceM>>
runVars == <<goroutines, cancelled>>
vars == <<config, newPc, newErr, svc, restConfig, clientsArg, calls,
          pc, bootCtx, nCalls, nReturned, onceDone, onceM, goroutines, cancelled>>

\* ------------------------------------------------------------ errors
NoError == [kind |-> "none", what |-> ""]
InvalidConfig(what) == [kind |-> "invalidConfigError", what |-> what]
\* microerror.Mask(err) of an error returned by a collaborator
Masked(stage) == [kind |-> "masked", what |-> stage]

\* a call of a collaborator's constructor and whether it returned err == nil
Call(fn, ok) == [fn |-> fn, ok |-> ok]

NilRestConfig == [nil |-> TRUE, Address |-> "", InCluster |-> FALSE]

\* ------------------------------------------------------------ New
Configs ==
    [Logger : BOOLEAN, Flag : BOOLEAN, Viper : BOOLEAN,
     Description : Strings, GitCommit : Strings, ProjectName : Strings,
     Source : Strings, Version : Strings,
     Address : Addresses, InCluster : BOOLEAN, KubeConfigPath : KubeConfigPaths]

\* the first failing check of lines 48-69, "" when all pass
ValidateConfig(c) ==
    IF ~c.Logger THEN "Logger"
    ELSE IF ~c.Flag THEN "Flag"
    ELSE IF ~c.Viper THEN "Viper"
    ELSE IF c.Description = "" THEN "Description"
    ELSE IF c.GitCommit = "" THEN "GitCommit"
    ELSE IF c.ProjectName = "" THEN "ProjectName"
    ELSE IF c.Source = "" THEN "Source"
    ELSE ""

\* the counter of lines 79-88
Defined(c) ==
    (IF c.Address # "" THEN 1 ELSE 0)
    + (IF c.InCluster THEN 1 ELSE 0)
    + (IF c.KubeConfigPath # "" THEN 1 ELSE 0)

DefinedErrorLoose(defined) ==
    IF defined = 0 THEN "address or inCluster or kubeConfigPath must be defined"
    ELSE IF defined > 2 THEN "address and inCluster and kubeConfigPath must not be defined at the same time"
    ELSE ""

\* the two checks of lines 90-95, "" when both pass
DefinedError(defined) ==
    IF defined = 0 THEN "address or inCluster or kubeConfigPath must be defined"
    ELSE IF defined > 1 THEN "address and inCluster and kubeConfigPath must not be defined at the same time"
    ELSE ""

NeedsRestConfigAlways(c) == TRUE

\* the condition of line 98
NeedsRestConfig(c) == c.KubeConfigPath = ""

ClientsConfigNoRest(c, rc) ==
    [KubeConfigPath |-> c.KubeConfigPath, RestConfig |-> NilRestConfig]

\* the k8sclient.ClientsConfig of lines 105-114
ClientsConfig(c, rc) ==
    [KubeConfigPath |-> c.KubeConfigPath, RestConfig |-> rc]

\* return nil, err
NewFail(err) ==
    /\ newErr' = err
    /\ newPc' = "done"
    /\ svc' = FALSE

NewValidate ==
    /\ newPc = "validate"
    /\ IF ValidateConfig(config) # ""
         THEN NewFail(InvalidConfig(ValidateConfig(config)))
         ELSE /\ newPc' = "resolve"
              /\ UNCHANGED <<newErr, svc>>
    /\ UNCHANGED <<config, restConfig, clientsArg, calls, bootVars, runVars>>

NewResolve ==
    /\ newPc = "resolve"
    /\ IF DefinedError(Defined(config)) # ""
         THEN NewFail(InvalidConfig(DefinedError(Defined(config))))
         ELSE /\ newPc' = IF NeedsRestConfig(config) THEN "restConfig" ELSE "clients"
              /\ UNCHANGED <<newErr, svc>>
    /\ UNCHANGED <<config, restConfig, clientsArg, calls, bootVars, runVars>>

\* buildK8sRestConfig: k8srestconfig.New succeeds or fails
NewBuildRestConfig ==
    /\ newPc = "restConfig"
    /\ \E ok \in BOOLEAN :
         /\ calls' = Append(calls, Call("k8srestconfig.New", ok))
         /\ IF ok
           THEN /\ restConfig' = [nil |-> FALSE, Address |-> config.Address,
                                  InCluster |-> config.InCluster]
                /\ newPc' = "clients"
                /\ UNCHANGED <<newErr, svc>>
           ELSE /\ NewFail(Masked("k8srestconfig.New"))
                /\ UNCHANGED restConfig
    /\ UNCHANGED <<config, clientsArg, bootVars, runVars>>

NewClients ==
    /\ newPc = "clients"
    /\ clientsArg' = Append(clientsArg, ClientsConfig(config, restConfig))
    /\ \E ok \in BOOLEAN :
         /\ calls' = Append(calls, Call("k8sclient.NewClients", ok))
         /\ IF ok
              THEN /\ newPc' = "operatorCollector"
                   /\ UNCHANGED <<newErr, svc>>
              ELSE NewFail(Masked("k8sclient.NewClients"))
    /\ UNCHANGED <<config, restConfig, bootVars, runVars>>

NewOperatorCollectorIgnoreErr ==
    /\ newPc = "operatorCollector"
    /\ \E ok \in BOOLEAN :
         /\ calls' = Append(calls, Call("collector.NewSet", ok))
         /\ newPc' = "statusResourceCollector"
         /\ UNCHANGED <<newErr, svc>>
    /\ UNCHANGED <<config, restConfig, clientsArg, bootVars, runVars>>

NewOperatorCollector ==
    /\ newPc = "operatorCollector"
    /\ \E ok \in BOOLEAN :
         /\ calls' = Append(calls, Call("collector.NewSet", ok))
         /\ IF ok
           THEN /\ newPc' = "statusResourceCollector"
                /\ UNCHANGED <<newErr, svc>>
           ELSE NewFail(Masked("collector.NewSet"))
    /\ UNCHANGED <<config, restConfig, clientsArg, bootVars, runVars>>

NewStatusResourceCollector ==
    /\ newPc = "statusResourceCollector"
    /\ \E ok \in BOOLEAN :
         /\ calls' = Append(calls, Call("statusresource.NewCollectorSet", ok))
         /\ IF ok
           THEN /\ newPc' = "versionService"
                /\ UNCHANGED <<newErr, svc>>
           ELSE NewFail(Masked("statusresource.NewCollectorSet"))
    /\ UNCHANGED <<config, restConfig, clientsArg, bootVars, runVars>>

\* version.New, then the Service literal and return s, nil
NewVersionService ==
    /\ newPc = "versionService"
    /\ \E ok \in BOOLEAN :
         /\ calls' = Append(calls, Call("version.New", ok))
         /\ IF ok
           THEN /\ newPc' = "done"
                /\ svc' = TRUE
                /\ UNCHANGED newErr
           ELSE NewFail(Masked("version.New"))
    /\ UNCHANGED <<config, restConfig, clientsArg, bootVars, runVars>>

New ==
    \/ NewValidate
    \/ NewResolve
    \/ NewBuildRestConfig
    \/ NewClients
    \/ NewOperatorCollector
    \/ NewStatusResourceCollector
    \/ NewVersionService

\* ------------------------------------------------------------ Boot
\* a goroutine created by a go statement of Boot, not yet scheduled
Goroutine(ctx) == [ctx |-> ctx, st |-> "spawned"]

GoCtxBackground(c) == Background

\* the ctx argument of the go statements of lines 181-182
GoCtx(c) == bootCtx[c]

\* a caller invokes s.Boot(ctx) on the constructed service; bootOnce.Do
\* loads the done flag outside the mutex and returns at once when it is set
BootCall(c, ctx) ==
    /\ svc
    /\ pc[c] = "idle"
    /\ nCalls < MaxCalls
    /\ nCalls' = nCalls + 1
    /\ IF onceDone
         THEN /\ nReturned' = nReturned + 1
              /\ UNCHANGED <<pc, bootCtx>>
         ELSE /\ bootCtx' = [bootCtx EXCEPT ![c] = ctx]
              /\ pc' = [pc EXCEPT ![c] = "Lock"]
              /\ UNCHANGED nReturned
    /\ UNCHANGED <<newVars, onceDone, onceM, runVars>>

SlowPathNoRecheck == "goOperator"

\* bootOnce.Do: where the load of the done flag under the mutex leads
SlowPath == IF onceDone THEN "Unlock" ELSE "goOperator"

\* bootOnce.Do: m.Lock() and the second load of the done flag
OnceLock(c) ==
    /\ pc[c] = "Lock"
    /\ onceM = 0
    /\ onceM' = c
    /\ pc' = [pc EXCEPT ![c] = SlowPath]
    /\ UNCHANGED <<newVars, bootCtx, nCalls, nReturned, onceDone, runVars>>

\* go s.operatorCollector.Boot(ctx)
GoOperatorCollector(c) ==
    /\ pc[c] = "goOperator"
    /\ goroutines' = [goroutines EXCEPT !["operatorCollector"] =
                         Append(@, Goroutine(GoCtx(c)))]
    /\ pc' = [pc EXCEPT ![c] = "goStatus"]
    /\ UNCHANGED <<newVars, bootCtx, nCalls, nReturned, onceDone, onceM, cancelled>>

\* go s.statusResourceCollector.Boot(ctx)
GoStatusResourceCollector(c) ==
    /\ pc[c] = "goStatus"
    /\ goroutines' = [goroutines EXCEPT !["statusResourceCollector"] =
                         Append(@, Goroutine(GoCtx(c)))]
    /\ pc' = [pc EXCEPT ![c] = "Store"]
    /\ UNCHANGED <<newVars, bootCtx, nCalls, nReturned, onceDone, onceM, cancelled>>

OnceStoreMissing(c) ==
    /\ pc[c] = "Store"
    /\ pc' = [pc EXCEPT ![c] = "Unlock"]
    /\ UNCHANGED <<newVars, bootCtx, nCalls, nReturned, onceDone, onceM, runVars>>

\* bootOnce.Do: the function returned, the done flag is set
OnceStore(c) ==
    /\ pc[c] = "Store"
    /\ onceDone' = TRUE
    /\ pc' = [pc EXCEPT ![c] = "Unlock"]
    /\ UNCHANGED <<newVars, bootCtx, nCalls, nReturned, onceM, runVars>>

\* Boot returns to its caller; it has no result
BootReturn(c) ==
    /\ pc' = [pc EXCEPT ![c] = "idle"]
    /\ bootCtx' = [bootCtx EXCEPT ![c] = Background]
    /\ nReturned' = nReturned + 1

OnceUnlockMissing(c) ==
    /\ pc[c] = "Unlock"
    /\ onceM = c
    /\ BootReturn(c)
    /\ UNCHANGED <<newVars, nCalls, onceDone, onceM, runVars>>

\* bootOnce.Do: m.Unlock(), and Boot returns
OnceUnlock(c) ==
    /\ pc[c] = "Unlock"
    /\ onceM = c
    /\ onceM' = 0
    /\ BootReturn(c)
    /\ UNCHANGED <<newVars, nCalls, onceDone, runVars>>

\* the steps of a Boot call after its entry
BootStep(c) ==
    \/ OnceLock(c)
    \/ GoOperatorCollector(c)
    \/ GoStatusResourceCollector(c)
    \/ OnceStore(c)
    \/ OnceUnlock(c)

Boot(c) ==
    \/ \E ctx \in Contexts : BootCall(c, ctx)
    \/ BootStep(c)

\* ------------------------------------------------------------ run loops
SetSt(s, i, st) ==
    goroutines' = [goroutines EXCEPT ![s][i].st = st]

OtherSets(s) == CollectorSets \ {s}

\* the scheduler runs the goroutine: the set's Boot(ctx) is invoked
CollectorBoot(s, i) ==
    /\ goroutines[s][i].st = "spawned"
    /\ SetSt(s, i, "running")
    /\ UNCHANGED <<newVars, bootVars, cancelled>>

CollectorFailAll(s, i) ==
    /\ goroutines[s][i].st = "running"
    /\ goroutines' = [t \in CollectorSets |->
                        [j \in DOMAIN goroutines[t] |->
                            IF goroutines[t][j].st = "running"
                              THEN [goroutines[t][j] EXCEPT !.st = "failed"]
                              ELSE goroutines[t][j]]]
    /\ UNCHANGED <<newVars, bootVars, cancelled>>

\* the set's Boot returns an error; the go statement discards it
CollectorFail(s, i) ==
    /\ goroutines[s][i].st = "running"
    /\ SetSt(s, i, "failed")
    /\ UNCHANGED <<newVars, bootVars, cancelled>>

\* the set's Boot observes the cancellation of its ctx and returns
CollectorStop(s, i) ==
    /\ goroutines[s][i].st = "running"
    /\ goroutines[s][i].ctx \in cancelled
    /\ SetSt(s, i, "stopped")
    /\ UNCHANGED <<newVars, bootVars, cancelled>>

\* the holder of a context cancels it
Cancel(ctx) ==
    /\ svc
    /\ ctx \notin cancelled
    /\ cancelled' = cancelled \cup {ctx}
    /\ UNCHANGED <<newVars, bootVars, goroutines>>

Collector(s) ==
    \E i \in DOMAIN goroutines[s] :
        \/ CollectorBoot(s, i)
        \/ CollectorFail(s, i)
        \/ CollectorStop(s, i)

Init ==
    /\ config \in Configs
    /\ newPc = "validate"
    /\ newErr = NoError
    /\ svc = FALSE
    /\ restConfig = NilRestConfig
    /\ clientsArg = <<>>
    /\ calls = <<>>
    /\ pc = [c \in Callers |-> "idle"]
    /\ bootCtx = [c \in Callers |-> Background]
    /\ nCalls = 0
    /\ nReturned = 0
    /\ onceDone = FALSE
    /\ onceM = 0
    /\ goroutines = [s \in CollectorSets |-> <<>>]
    /\ cancelled = {}

Next ==
    \/ New
    \/ \E c \in Callers : Boot(c)
    \/ \E s \in CollectorSets : Collector(s)
    \/ \E ctx \in Contexts : Cancel(ctx)

Spec == Init /\ [][Next]_vars

\* a goroutine that called Boot and can take its next step is scheduled
\* eventually; nothing is assumed about the run loops or about cancellation
Fairness == \A c \in Callers : WF_vars(BootStep(c))

\* the configuration of the end-to-end example: inCluster only
ExampleConfig ==
    [Logger |-> TRUE, Flag |-> TRUE, Viper |-> TRUE,
     Description |-> "x", GitCommit |-> "x", ProjectName |-> "x",
     Source |-> "x", Version |-> "x",
     Address |-> "", InCluster |-> TRUE, KubeConfigPath |-> ""]

FairInit == Init /\ config = ExampleConfig

FairSpec == FairInit /\ [][Next]_vars /\ Fairness
\* ------------------------------------------------------------ properties
\* go statements executed for a collector set
Started(s) == Len(goroutines[s])

AllGoroutines == {<<s, i>> : s \in CollectorSets, i \in 1..MaxCalls + 1}
Live == {g \in AllGoroutines : g[2] \in DOMAIN goroutines[g[1]]}
G(g) == goroutines[g[1]][g[2]]

\* C1: however many Boot calls are issued, sequentially or concurrently, no
\* collector set is ever started twice, and once a Boot call has returned
\* each of the two sets has been started exactly once.
C1_BootOnce ==
    /\ \A s \in CollectorSets : Started(s) <= 1
    /\ nReturned >= 1 => \A s \in CollectorSets : Started(s) = 1

C1_Witness ==
    /\ nReturned = MaxCalls
    /\ \A s \in CollectorSets : Started(s) = 1 /\ goroutines[s][1].st = "running"

\* C2: with 0, 2 or 3 of address, inCluster, kubeConfigPath defined New
\* returns no service, its error is invalidConfigError, and neither the REST
\* config build nor any client construction was attempted.
C2_ConnectionCount ==
    Defined(config) \in {0, 2, 3} =>
        /\ ~svc
        /\ calls = <<>>
        /\ clientsArg = <<>>
        /\ newPc \in {"validate", "resolve", "done"}
        /\ newPc = "done" => newErr.kind = "invalidConfigError"

C2_Witness ==
    /\ Defined(config) = 2
    /\ ValidateConfig(config) = ""
    /\ newPc = "done"
    /\ newErr = InvalidConfig(DefinedError(2))

IdentityFields == {"Description", "GitCommit", "ProjectName", "Source", "Version"}

\* the configuration is complete except for identity field f
OnlyEmpty(f) ==
    /\ config.Logger /\ config.Flag /\ config.Viper
    /\ Defined(config) = 1
    /\ \A g \in IdentityFields : config[g] = "" <=> g = f

\* C3: a configuration whose only defect is one empty identity field makes
\* New fail with invalidConfigError naming the field, before the REST config
\* build or any client construction is attempted.
C3_IdentityRequired ==
    \A f \in IdentityFields :
        OnlyEmpty(f) =>
            /\ calls = <<>>
            /\ ~svc
            /\ newPc = "done" => newErr = InvalidConfig(f)

\* C4: when kubeConfigPath is the only defined connection parameter,
\* buildK8sRestConfig is never called and NewClients receives the path
\* unchanged with a nil RestConfig.
C4_KubeConfigOnly ==
    (Defined(config) = 1 /\ config.KubeConfigPath # "") =>
        /\ newPc # "restConfig"
        /\ \A i \in DOMAIN calls : calls[i].fn # "k8srestconfig.New"
        /\ restConfig = NilRestConfig
        /\ \A i \in DOMAIN clientsArg :
              clientsArg[i] = [KubeConfigPath |-> config.KubeConfigPath,
                               RestConfig |-> NilRestConfig]

C4_Witness ==
    /\ Defined(config) = 1
    /\ config.KubeConfigPath # ""
    /\ Len(clientsArg) = 1
    /\ svc

\* a collector set's Boot returns an error in this step
Fails(s, i) ==
    /\ i \in DOMAIN goroutines[s]
    /\ goroutines[s][i].st = "running"
    /\ goroutines'[s][i].st = "failed"

\* C5: the step in which one collector set's run loop returns an error
\* leaves the other set's goroutine and every Boot caller as they are, and
\* once the start sequence is over the other set has been started even if
\* the first one had already failed.
C5_Isolation ==
    /\ [][\A s \in CollectorSets : \A i \in 1..MaxCalls :
            Fails(s, i) =>
                /\ \A t \in OtherSets(s) : goroutines'[t] = goroutines[t]
                /\ pc' = pc /\ nReturned' = nReturned]_vars
    /\ [](onceDone => \A t \in CollectorSets : Started(t) >= 1)

C5_Witness ==
    /\ goroutines["operatorCollector"] # <<>>
    /\ goroutines["operatorCollector"][1].st = "failed"
    /\ goroutines["statusResourceCollector"] # <<>>
    /\ goroutines["statusResourceCollector"][1].st = "running"
    /\ nReturned >= 1
    /\ cancelled = {}

\* the collaborators New constructs, in order
Stages(c) ==
    (IF NeedsRestConfig(c) THEN <<"k8srestconfig.New">> ELSE <<>>)
    \o <<"k8sclient.NewClients", "collector.NewSet",
         "statusresource.NewCollectorSet", "version.New">>

\* C6: New returns a service only after the validation passed and every
\* stage was run once, in order, and succeeded; a failing stage is the last
\* one run, and New then is done with that stage's error and no service.
C6_AllOrNothing ==
    /\ Len(calls) <= Len(Stages(config))
    /\ \A i \in DOMAIN calls : calls[i].fn = Stages(config)[i]
    /\ \A i \in DOMAIN calls :
          ~calls[i].ok => /\ i = Len(calls)
                          /\ newPc = "done"
                          /\ ~svc
                          /\ newErr = Masked(calls[i].fn)
    /\ svc => /\ newErr = NoError
              /\ newPc = "done"
              /\ ValidateConfig(config) = ""
              /\ DefinedError(Defined(config)) = ""
              /\ Len(calls) = Len(Stages(config))
              /\ \A i \in DOMAIN calls : calls[i].ok
    /\ newErr # NoError => ~svc /\ newPc = "done"
    /\ (newPc = "done" /\ ~svc) => newErr # NoError

C6_Witness ==
    /\ newPc = "done"
    /\ ~svc
    /\ Len(calls) = 3
    /\ newErr = Masked("collector.NewSet")

\* C7: every Boot call returns, whether or not the run loops ever end.
C7_BootReturns ==
    \A c \in Callers : (pc[c] # "idle") ~> (pc[c] = "idle")

C7_Witness ==
    /\ nReturned >= 2
    /\ cancelled = {}
    /\ \A s \in CollectorSets : Started(s) = 1 /\ goroutines[s][1].st = "running"

\* caller c executes one of the two go statements in this step
Goes(c, s) ==
    /\ pc[c] = (IF s = "operatorCollector" THEN "goOperator" ELSE "goStatus")
    /\ pc'[c] # pc[c]

\* C8: a collector set is started with the ctx of the Boot call whose go
\* statement starts it, which is a context a caller supplied, and a running
\* set whose ctx is cancelled can observe the cancellation.
C8_ContextPropagates ==
    /\ [][\A c \in Callers : \A s \in CollectorSets :
            Goes(c, s) => /\ Len(goroutines'[s]) = Len(goroutines[s]) + 1
                          /\ goroutines'[s][Len(goroutines'[s])].ctx = bootCtx[c]]_vars
    /\ [](\A g \in Live :
            /\ G(g).ctx \in Contexts
            /\ (G(g).st = "running" /\ G(g).ctx \in cancelled)
                  => ENABLED CollectorStop(g[1], g[2])
            /\ G(g).st = "stopped" => G(g).ctx \in cancelled)

C8_Witness ==
    /\ \A s \in CollectorSets : Started(s) = 1 /\ goroutines[s][1].st = "stopped"
    /\ Cardinality(cancelled) = 1

\* C9: the ClientsConfig handed to NewClients has either a non-empty
\* KubeConfigPath and a nil RestConfig, or an empty KubeConfigPath and a
\* non-nil RestConfig.
C9_ExactlyOne ==
    \A i \in DOMAIN clientsArg :
        \/ clientsArg[i].KubeConfigPath # "" /\ clientsArg[i].RestConfig.nil
        \/ clientsArg[i].KubeConfigPath = "" /\ ~clientsArg[i].RestConfig.nil

C9_Witness ==
    /\ Len(clientsArg) = 1
    /\ ~clientsArg[1].RestConfig.nil
    /\ clientsArg[1].RestConfig.InCluster

\* caller c is inside the function bootOnce runs, past its first go statement
InStart(c) == pc[c] \in {"goStatus", "Store"}

\* C10: all goroutines of the collector sets carry one ctx, that of the Boot
\* call that ran the start sequence; a later Boot call neither starts a set
\* nor changes a set's ctx, and a set stops on cancellation only when that
\* one ctx is cancelled.
C10_SingleContext ==
    /\ [](\A g \in Live : \A h \in Live : G(g).ctx = G(h).ctx)
    /\ [](\A c \in Callers : InStart(c) => \A g \in Live : G(g).ctx = bootCtx[c])
    /\ [][\A s \in CollectorSets :
            (onceDone /\ Started(s) >= 1) =>
                /\ Len(goroutines'[s]) = Len(goroutines[s])
                /\ goroutines'[s][1].ctx = goroutines[s][1].ctx]_vars
    /\ [][\A g \in Live :
            (G(g).st = "running" /\ goroutines'[g[1]][g[2]].st = "stopped")
                => G(g).ctx \in cancelled]_vars

C10_Witness ==
    /\ \A s \in CollectorSets : Started(s) = 1 /\ goroutines[s][1].st = "running"
    /\ \E c \in Callers :
          /\ pc[c] = "Unlock"
          /\ bootCtx[c] \in Contexts \ {goroutines["operatorCollector"][1].ctx}
          /\ bootCtx[c] \in cancelled
    /\ nReturned >= 2
====
